---- MODULE Spec2Model ----
(***************************************************************************)
(* The Dalvik VM hash table (vm/Hash.cpp): open addressing with linear     *)
(* probing, tombstones on removal and doubling when the load factor        *)
(* exceeds LOAD_NUMER / LOAD_DENOM.                                        *)
(*                                                                         *)
(* One table is modelled from the return of dvmHashTableCreate onwards.    *)
(* Each call is an operator from the table before it to the table after it *)
(* and the value returned; the actions apply the operators, and the        *)
(* properties state what the operators do in every state the actions       *)
(* reach.  Three specifications share the variables:                       *)
(*   Spec       every public call is one atomic action (the caller holds   *)
(*              the table's lock across the call);                         *)
(*   SpecMT     two threads run dvmHashTableLookup(doAdd) step by step,    *)
(*              probe by probe, each between dvmHashTableLock and          *)
(*              dvmHashTableUnlock;                                        *)
(*   SpecSized  a table created with dvmHashSize(n) slots that is only     *)
(*              added to.                                                  *)
(*                                                                         *)
(* Item pointers are the numbers 1..NumItems, NULL is 0 and HASH_TOMBSTONE *)
(* is -1; callers pass items only (the asserts of dvmHashTableLookup).     *)
(* An item is added with the hash code its callers' hash function gives    *)
(* its key.  Hash codes are small naturals, for which the u4 -> int -> u4  *)
(* round trip of resizeHash preserves the value, and "h & (size-1)" is     *)
(* "h % size" because tableSize is a power of two.                         *)
(***************************************************************************)
EXTENDS Integers, Sequences, FiniteSets, TLC

\* ------------------------------------------------------------------ bounds
NumItems == 5
MaxHash == 1
MaxInitialSize == 4
MaxTableSize == 8
MaxSizeArg == 40

\* ------------------------------------------------------- program constants
LOAD_NUMER == 5
LOAD_DENOM == 8
SizeBits == 32
NULL == 0
HASH_TOMBSTONE == -1

Items == 1 .. NumItems
Hashes == 0 .. MaxHash

\* The caller's compare function: 0 when the two items have the same key.
\* The last item is a second object with the key of item 1.
KeyOf(item) == IF item = NumItems THEN 1 ELSE item
cmpFunc(tableItem, looseItem) == IF KeyOf(tableItem) = KeyOf(looseItem) THEN 0 ELSE 1

\* The hash functions callers compute itemHash with (HashCalcFunc), as
\* functions of the key: hashes that are distinct in a table of 4 except
\* that key 4 meets key 1, and hashes that all meet in the last slot of a
\* table of 4 (and in two slots of a table of 8) and wrap around from it.
Keys == {KeyOf(item) : item \in Items}
ScenarioHash == [k \in Keys |-> IF k <= 3 THEN k - 1 ELSE k]
WrapHash == [k \in Keys |-> 4 * k - 1]
HashFuncs == {ScenarioHash, WrapHash}

VARIABLES
    pHashTable,       \* the HashTable: [tableSize, numEntries, numDeadEntries, pEntries]
    calcFunc,         \* the hash function this table's callers use
    sizeHint,      \* the initialSize dvmHashTableCreate was called with
    status,           \* "running", "aborted" (dvmAbort), "hung" (a probe that never
                      \*   ends) or "freed" (dvmHashTableFree)
    held,             \* observer: items the callers have added and not taken out again
    scen,             \* observer: how many of the items 1, 2, 3, 4 have been added, in
                      \*   that order and with nothing else changing the table, to a
                      \*   table created with initialSize 4; -1 otherwise
    trip,             \* observer: [phase, n, left]: n new items added ("ins"), then
                      \*   removed one by one ("rem") with left still to go; "off" once
                      \*   the calls are no longer of that shape
    freed,            \* observer: the items the last call has called freeFunc on, in order
    lock,             \* pHashTable->lock: the thread that holds it, 0 when it is free
    thr               \* the two threads of SpecMT, each [pc, idx, ret, grew]: where
                      \*   it is in its locked dvmHashTableLookup, the entry its probe
                      \*   ended at, what the call returned, whether it resized

vars == <<pHashTable, calcFunc, sizeHint, status, held, scen, trip, freed, lock, thr>>

\* calloc'ed entry
ZeroEntry == [hashValue |-> 0, data |-> NULL]

\* Least power of two that is >= val.
RECURSIVE RoundUpFrom(_, _)
RoundUpFrom(p, val) == IF p >= val THEN p ELSE RoundUpFrom(2 * p, val)
dexRoundUpPower2(val) == RoundUpFrom(1, val)

\* size_t arithmetic: "size * LOAD_DENOM" is taken modulo 2^SizeBits.  With
\* LOAD_DENOM = 2^3 the product is LOAD_DENOM * (size % 2^(SizeBits-3)), and
\* (m * LOAD_DENOM) / LOAD_NUMER is m * q + (m * r) / LOAD_NUMER for
\* LOAD_DENOM = q * LOAD_NUMER + r, which keeps every intermediate value
\* below 2^31.
WrapAt == 2 ^ (SizeBits - 3)
MulDivWrapped(size) ==
    LET m == size % WrapAt
    IN  m * (LOAD_DENOM \div LOAD_NUMER) + (m * (LOAD_DENOM % LOAD_NUMER)) \div LOAD_NUMER

\* dvmHashSize without the "+1".
dvmHashSize_NoPlusOne(size) == MulDivWrapped(size)

\* "size_t dvmHashSize(size_t size) { return (size * LOAD_DENOM) / LOAD_NUMER +1; }"
dvmHashSize(size) == MulDivWrapped(size) + 1

IsLive(d) == d # NULL /\ d # HASH_TOMBSTONE

\* countTombStones
countTombStones(entries, size) ==
    Cardinality({i \in 0 .. size - 1 : entries[i].data = HASH_TOMBSTONE})

\* ------------------------------------------------------------------ probing
\* LookupProbe with the (*cmpFunc)() call forgotten: a match on hashValue alone.
RECURSIVE LookupProbe_HashOnly(_, _, _, _, _, _)
LookupProbe_HashOnly(entries, size, itemHash, item, idx, count) ==
    LET e == entries[idx]
        stop == [idx |-> idx, count |-> count, halts |-> TRUE]
        step(j) == IF count + 1 >= size
                   THEN [idx |-> j, count |-> count + 1, halts |-> FALSE]
                   ELSE LookupProbe_HashOnly(entries, size, itemHash, item, j, count + 1)
    IN  IF e.data = NULL THEN stop
        ELSE IF e.data # HASH_TOMBSTONE /\ e.hashValue = itemHash THEN stop
        ELSE IF idx + 1 = size
             THEN IF size = 1
                  THEN [idx |-> size, count |-> count, halts |-> TRUE]
                  ELSE step(0)
             ELSE step(idx + 1)

\* LookupProbe with a tombstone ending the probe like a NULL entry.
RECURSIVE LookupProbe_StopsAtTombstone(_, _, _, _, _, _)
LookupProbe_StopsAtTombstone(entries, size, itemHash, item, idx, count) ==
    LET e == entries[idx]
        stop == [idx |-> idx, count |-> count, halts |-> TRUE]
        step(j) == IF count + 1 >= size
                   THEN [idx |-> j, count |-> count + 1, halts |-> FALSE]
                   ELSE LookupProbe_StopsAtTombstone(entries, size, itemHash, item,
                                                     j, count + 1)
    IN  IF e.data = NULL \/ e.data = HASH_TOMBSTONE THEN stop
        ELSE IF e.hashValue = itemHash /\ cmpFunc(e.data, item) = 0 THEN stop
        ELSE IF idx + 1 = size
             THEN IF size = 1
                  THEN [idx |-> size, count |-> count, halts |-> TRUE]
                  ELSE step(0)
             ELSE step(idx + 1)

\* LookupProbe matching on the pointer, as dvmHashTableRemove does, instead
\* of calling cmpFunc.
RECURSIVE LookupProbe_ByIdentity(_, _, _, _, _, _)
LookupProbe_ByIdentity(entries, size, itemHash, item, idx, count) ==
    LET e == entries[idx]
        stop == [idx |-> idx, count |-> count, halts |-> TRUE]
        step(j) == IF count + 1 >= size
                   THEN [idx |-> j, count |-> count + 1, halts |-> FALSE]
                   ELSE LookupProbe_ByIdentity(entries, size, itemHash, item, j, count + 1)
    IN  IF e.data = NULL THEN stop
        ELSE IF e.data = item THEN stop
        ELSE IF idx + 1 = size
             THEN IF size = 1
                  THEN [idx |-> size, count |-> count, halts |-> TRUE]
                  ELSE step(0)
             ELSE step(idx + 1)

\* The probe loop of dvmHashTableLookup and countProbes, started with
\* idx = itemHash & (tableSize-1) and count = 0.  idx = size is pEnd, the
\* position the single-entry break leaves pEntry at.  halts = FALSE when
\* the loop has come back to its start without finding NULL or a match:
\* nothing changes the table meanwhile, so it never ends.
RECURSIVE LookupProbe(_, _, _, _, _, _)
LookupProbe(entries, size, itemHash, item, idx, count) ==
    LET e == entries[idx]
        stop == [idx |-> idx, count |-> count, halts |-> TRUE]
        step(j) == IF count + 1 >= size
                   THEN [idx |-> j, count |-> count + 1, halts |-> FALSE]
                   ELSE LookupProbe(entries, size, itemHash, item, j, count + 1)
    IN  IF e.data = NULL THEN stop
        ELSE IF e.data # HASH_TOMBSTONE /\ e.hashValue = itemHash
                /\ cmpFunc(e.data, item) = 0 THEN stop
        ELSE IF idx + 1 = size
             THEN IF size = 1
                  THEN [idx |-> size, count |-> count, halts |-> TRUE]
                  ELSE step(0)
             ELSE step(idx + 1)

\* RemoveProbe matching with cmpFunc instead of pointer identity.
RECURSIVE RemoveProbe_ByEquality(_, _, _, _, _)
RemoveProbe_ByEquality(entries, size, item, idx, count) ==
    LET e == entries[idx]
        step(j) == IF count + 1 >= size
                   THEN [idx |-> j, found |-> FALSE, halts |-> FALSE]
                   ELSE RemoveProbe_ByEquality(entries, size, item, j, count + 1)
    IN  IF e.data = NULL THEN [idx |-> idx, found |-> FALSE, halts |-> TRUE]
        ELSE IF e.data # HASH_TOMBSTONE /\ cmpFunc(e.data, item) = 0
        THEN [idx |-> idx, found |-> TRUE, halts |-> TRUE]
        ELSE IF idx + 1 = size
             THEN IF size = 1
                  THEN [idx |-> size, found |-> FALSE, halts |-> TRUE]
                  ELSE step(0)
             ELSE step(idx + 1)

\* The probe loop of dvmHashTableRemove: the match is pointer identity.
RECURSIVE RemoveProbe(_, _, _, _, _)
RemoveProbe(entries, size, item, idx, count) ==
    LET e == entries[idx]
        step(j) == IF count + 1 >= size
                   THEN [idx |-> j, found |-> FALSE, halts |-> FALSE]
                   ELSE RemoveProbe(entries, size, item, j, count + 1)
    IN  IF e.data = NULL THEN [idx |-> idx, found |-> FALSE, halts |-> TRUE]
        ELSE IF e.data = item THEN [idx |-> idx, found |-> TRUE, halts |-> TRUE]
        ELSE IF idx + 1 = size
             THEN IF size = 1
                  THEN [idx |-> size, found |-> FALSE, halts |-> TRUE]
                  ELSE step(0)
             ELSE step(idx + 1)

\* pEntry->data after the probe loop; at pEnd the read is outside the
\* array and yields whatever the heap holds there (oob).
DataAt(entries, size, idx, oob) == IF idx < size THEN entries[idx].data ELSE oob

\* ------------------------------------------------------------------- resize
\* NewSpot without the wrap-around: the probe takes the index before the end
\* of the new array when it runs off it.
RECURSIVE NewSpot_NoWrap(_, _, _, _)
NewSpot_NoWrap(newEntries, newSize, newIdx, n) ==
    IF newEntries[newIdx].data = NULL THEN newIdx
    ELSE IF newIdx + 1 >= newSize THEN newIdx
    ELSE NewSpot_NoWrap(newEntries, newSize, newIdx + 1, n + 1)

\* "while (pNewEntries[newIdx].data != NULL) newIdx = (newIdx+1) & (newSize-1)";
\* -1 when the loop goes round without finding a free entry.
RECURSIVE NewSpot(_, _, _, _)
NewSpot(newEntries, newSize, newIdx, n) ==
    IF newEntries[newIdx].data = NULL THEN newIdx
    ELSE IF n + 1 >= newSize THEN -1
    ELSE NewSpot(newEntries, newSize, (newIdx + 1) % newSize, n + 1)

\* ResizeCopy with the test "data != HASH_TOMBSTONE" forgotten.
RECURSIVE ResizeCopy_CopiesTombstones(_, _, _, _)
ResizeCopy_CopiesTombstones(entries, i, newEntries, newSize) ==
    IF i < 0 THEN [hung |-> FALSE, entries |-> newEntries]
    ELSE LET data == entries[i].data
             hashValue == entries[i].hashValue
         IN  IF data # NULL
             THEN LET newIdx == NewSpot(newEntries, newSize, hashValue % newSize, 0)
                  IN  IF newIdx < 0
                      THEN [hung |-> TRUE, entries |-> newEntries]
                      ELSE ResizeCopy_CopiesTombstones(entries, i - 1,
                               [newEntries EXCEPT ![newIdx] =
                                   [hashValue |-> hashValue, data |-> data]],
                               newSize)
             ELSE ResizeCopy_CopiesTombstones(entries, i - 1, newEntries, newSize)

\* ResizeCopy putting each item at the index it had in the old array,
\* without the probe for a new spot from "hashValue & (newSize-1)".
RECURSIVE ResizeCopy_KeepsIndex(_, _, _, _)
ResizeCopy_KeepsIndex(entries, i, newEntries, newSize) ==
    IF i < 0 THEN [hung |-> FALSE, entries |-> newEntries]
    ELSE IF IsLive(entries[i].data)
         THEN ResizeCopy_KeepsIndex(entries, i - 1,
                                    [newEntries EXCEPT ![i] = entries[i]], newSize)
         ELSE ResizeCopy_KeepsIndex(entries, i - 1, newEntries, newSize)

\* The copy loop of resizeHash, "for (i = tableSize; --i >= 0;)".
RECURSIVE ResizeCopy(_, _, _, _)
ResizeCopy(entries, i, newEntries, newSize) ==
    IF i < 0 THEN [hung |-> FALSE, entries |-> newEntries]
    ELSE LET data == entries[i].data
             hashValue == entries[i].hashValue
         IN  IF IsLive(data)
             THEN LET newIdx == NewSpot(newEntries, newSize, hashValue % newSize, 0)
                  IN  IF newIdx < 0
                      THEN [hung |-> TRUE, entries |-> newEntries]
                      ELSE ResizeCopy(entries, i - 1,
                               [newEntries EXCEPT ![newIdx] =
                                   [hashValue |-> hashValue, data |-> data]],
                               newSize)
             ELSE ResizeCopy(entries, i - 1, newEntries, newSize)

\* resizeHash(pHashTable, newSize).  allocOk: whether calloc succeeds.
\* ok is the bool returned; hung: the copy loop never ends.
resizeHash(ht, newSize, allocOk) ==
    LET copy == ResizeCopy(ht.pEntries, ht.tableSize - 1,
                           [i \in 0 .. newSize - 1 |-> ZeroEntry], newSize)
    IN  IF ~allocOk THEN [ok |-> FALSE, hung |-> FALSE, ht |-> ht]
        ELSE IF copy.hung THEN [ok |-> FALSE, hung |-> TRUE, ht |-> ht]
        ELSE [ok |-> TRUE, hung |-> FALSE,
              ht |-> [ht EXCEPT !.pEntries = copy.entries,
                                !.tableSize = newSize,
                                !.numDeadEntries = 0]]

\* TooFull with the tombstones left out of the load.
TooFull_IgnoresDead(live, dead, size) == live * LOAD_DENOM > size * LOAD_NUMER

\* TooFull with the 75% load factor that the source has commented out.
TooFull_ThreeQuarters(live, dead, size) == (live + dead) * 4 > size * 3

\* TooFull with a load factor of 1: the table grows once every entry is used.
TooFull_WhenFull(live, dead, size) == (live + dead) * LOAD_DENOM > size * LOAD_DENOM

\* "(numEntries + numDeadEntries) * LOAD_DENOM > tableSize * LOAD_NUMER"
TooFull(live, dead, size) == (live + dead) * LOAD_DENOM > size * LOAD_NUMER

\* --------------------------------------------------------------- operations
\* Each call is an operator from the table before the call (and the call's
\* arguments) to [ht: the table after it, status, ret: the value returned].
\* ret is meaningful only when status is "running".

\* dvmHashTableCreate with initialSize taken as tableSize, not rounded up.
dvmHashTableCreate_NoRoundUp(initialSize) ==
    [tableSize |-> initialSize, numEntries |-> 0, numDeadEntries |-> 0,
     pEntries |-> [i \in 0 .. initialSize - 1 |-> ZeroEntry]]

\* dvmHashTableCreate(sizeHint, freeFunc), both allocations succeeding.
dvmHashTableCreate(initialSize) ==
    LET size == dexRoundUpPower2(initialSize)
    IN  [tableSize |-> size, numEntries |-> 0, numDeadEntries |-> 0,
         pEntries |-> [i \in 0 .. size - 1 |-> ZeroEntry]]

\* dvmHashTableLookup putting a new item into the first tombstone its probe
\* has passed, when there is one, and taking that tombstone off the count.
dvmHashTableLookup_ReusesTombstone(ht, itemHash, item, doAdd, allocOk, oob) ==
    LET start == itemHash % ht.tableSize
        p == LookupProbe(ht.pEntries, ht.tableSize, itemHash, item, start, 0)
        d == DataAt(ht.pEntries, ht.tableSize, p.idx, oob)
        passed == {k \in 0 .. p.count - 1 :
                      ht.pEntries[(start + k) % ht.tableSize].data = HASH_TOMBSTONE}
        first == CHOOSE k \in passed : \A l \in passed : k <= l
        spot == IF passed = {} THEN p.idx ELSE (start + first) % ht.tableSize
        added == [ht EXCEPT
                    !.pEntries = IF spot < ht.tableSize
                                 THEN [@ EXCEPT ![spot] =
                                          [hashValue |-> itemHash, data |-> item]]
                                 ELSE @,
                    !.numEntries = @ + 1,
                    !.numDeadEntries = IF passed = {} THEN @ ELSE @ - 1]
        grown == resizeHash(added, added.tableSize * 2, allocOk)
    IN  IF ~p.halts THEN [ht |-> ht, status |-> "hung", ret |-> NULL]
        ELSE IF d = NULL
        THEN IF doAdd
             THEN IF TooFull(added.numEntries, added.numDeadEntries, added.tableSize)
                  THEN IF grown.hung
                       THEN [ht |-> added, status |-> "hung", ret |-> NULL]
                       ELSE IF ~grown.ok
                       THEN [ht |-> added, status |-> "aborted", ret |-> NULL]
                       ELSE [ht |-> grown.ht, status |-> "running", ret |-> item]
                  ELSE [ht |-> added, status |-> "running", ret |-> item]
             ELSE [ht |-> ht, status |-> "running", ret |-> NULL]
        ELSE [ht |-> ht, status |-> "running", ret |-> d]

\* dvmHashTableLookup without the dvmAbort() after a resizeHash that failed:
\* the call returns the item it added to the table it could not enlarge.
dvmHashTableLookup_NoAbort(ht, itemHash, item, doAdd, allocOk, oob) ==
    LET p == LookupProbe(ht.pEntries, ht.tableSize, itemHash, item,
                         itemHash % ht.tableSize, 0)
        d == DataAt(ht.pEntries, ht.tableSize, p.idx, oob)
        added == [ht EXCEPT
                    !.pEntries = IF p.idx < ht.tableSize
                                 THEN [@ EXCEPT ![p.idx] =
                                          [hashValue |-> itemHash, data |-> item]]
                                 ELSE @,
                    !.numEntries = @ + 1]
        grown == resizeHash(added, added.tableSize * 2, allocOk)
    IN  IF ~p.halts THEN [ht |-> ht, status |-> "hung", ret |-> NULL]
        ELSE IF d = NULL
        THEN IF doAdd
             THEN IF TooFull(added.numEntries, added.numDeadEntries, added.tableSize)
                     /\ grown.ok
                  THEN [ht |-> grown.ht, status |-> "running", ret |-> item]
                  ELSE [ht |-> added, status |-> "running", ret |-> item]
             ELSE [ht |-> ht, status |-> "running", ret |-> NULL]
        ELSE [ht |-> ht, status |-> "running", ret |-> d]

\* dvmHashTableLookup(pHashTable, itemHash, item, cmpFunc, doAdd).
\* allocOk: whether the calloc of resizeHash succeeds, if it is reached.
\* oob: what a read of pEnd->data yields, if it is reached.
dvmHashTableLookup(ht, itemHash, item, doAdd, allocOk, oob) ==
    LET p == LookupProbe(ht.pEntries, ht.tableSize, itemHash, item,
                         itemHash % ht.tableSize, 0)
        d == DataAt(ht.pEntries, ht.tableSize, p.idx, oob)
        added == [ht EXCEPT
                    !.pEntries = IF p.idx < ht.tableSize
                                 THEN [@ EXCEPT ![p.idx] =
                                          [hashValue |-> itemHash, data |-> item]]
                                 ELSE @,
                    !.numEntries = @ + 1]
        grown == resizeHash(added, added.tableSize * 2, allocOk)
    IN  IF ~p.halts THEN [ht |-> ht, status |-> "hung", ret |-> NULL]
        ELSE IF d = NULL
        THEN IF doAdd
             THEN IF TooFull(added.numEntries, added.numDeadEntries, added.tableSize)
                  THEN IF grown.hung
                       THEN [ht |-> added, status |-> "hung", ret |-> NULL]
                       ELSE IF ~grown.ok
                       THEN [ht |-> added, status |-> "aborted", ret |-> NULL]
                       ELSE [ht |-> grown.ht, status |-> "running", ret |-> item]
                  ELSE [ht |-> added, status |-> "running", ret |-> item]
             ELSE [ht |-> ht, status |-> "running", ret |-> NULL]
        ELSE [ht |-> ht, status |-> "running", ret |-> d]

\* countProbes(pHashTable, itemHash, item, cmpFunc): the probe loop of
\* dvmHashTableLookup with its advances counted; -1 when it ends at NULL.
countProbes(ht, itemHash, item, oob) ==
    LET p == LookupProbe(ht.pEntries, ht.tableSize, itemHash, item,
                         itemHash % ht.tableSize, 0)
    IN  IF DataAt(ht.pEntries, ht.tableSize, p.idx, oob) = NULL THEN -1 ELSE p.count

\* dvmHashTableRemove resetting the entry to NULL instead of the tombstone.
dvmHashTableRemove_ClearsEntry(ht, itemHash, item) ==
    LET p == RemoveProbe(ht.pEntries, ht.tableSize, item, itemHash % ht.tableSize, 0)
    IN  IF ~p.halts THEN [ht |-> ht, status |-> "hung", ret |-> 0]
        ELSE IF p.found
        THEN [ht |-> [ht EXCEPT !.pEntries[p.idx].data = NULL,
                                !.numEntries = @ - 1],
              status |-> "running", ret |-> 1]
        ELSE [ht |-> ht, status |-> "running", ret |-> 0]

\* dvmHashTableRemove(pHashTable, itemHash, item); ret is 1 for true.
dvmHashTableRemove(ht, itemHash, item) ==
    LET p == RemoveProbe(ht.pEntries, ht.tableSize, item, itemHash % ht.tableSize, 0)
    IN  IF ~p.halts THEN [ht |-> ht, status |-> "hung", ret |-> 0]
        ELSE IF p.found
        THEN [ht |-> [ht EXCEPT !.pEntries[p.idx].data = HASH_TOMBSTONE,
                                !.numEntries = @ - 1,
                                !.numDeadEntries = @ + 1],
              status |-> "running", ret |-> 1]
        ELSE [ht |-> ht, status |-> "running", ret |-> 0]

\* dvmHashTableClear with "numDeadEntries = 0" forgotten.
dvmHashTableClear_KeepsDeadCount(ht) ==
    [ht EXCEPT !.pEntries = [i \in 0 .. ht.tableSize - 1 |-> [@[i] EXCEPT !.data = NULL]],
               !.numEntries = 0]

\* ClearLoop with the test for HASH_TOMBSTONE forgotten.
RECURSIVE ClearLoop_FreesTombstones(_, _, _, _)
ClearLoop_FreesTombstones(ht, freeFunc, i, calls) ==
    IF i >= ht.tableSize THEN [ht |-> ht, calls |-> calls]
    ELSE LET data == ht.pEntries[i].data
         IN  IF data # NULL
             THEN ClearLoop_FreesTombstones([ht EXCEPT !.pEntries[i].data = NULL], freeFunc,
                                            i + 1,
                                            IF freeFunc THEN Append(calls, data) ELSE calls)
             ELSE ClearLoop_FreesTombstones(ht, freeFunc, i + 1, calls)

\* The loop of dvmHashTableClear, pEnt going up from pEntries.  freeFunc:
\* whether pHashTable->freeFunc is not NULL; calls: the items it was called on.
RECURSIVE ClearLoop(_, _, _, _)
ClearLoop(ht, freeFunc, i, calls) ==
    IF i >= ht.tableSize THEN [ht |-> ht, calls |-> calls]
    ELSE LET data == ht.pEntries[i].data
         IN  IF data = HASH_TOMBSTONE
             THEN ClearLoop([ht EXCEPT !.pEntries[i].data = NULL], freeFunc, i + 1, calls)
             ELSE IF data # NULL
             THEN ClearLoop([ht EXCEPT !.pEntries[i].data = NULL], freeFunc, i + 1,
                            IF freeFunc THEN Append(calls, data) ELSE calls)
             ELSE ClearLoop(ht, freeFunc, i + 1, calls)

\* dvmHashTableClear(pHashTable): data is reset, hashValue is left as it is.
dvmHashTableClear(ht) ==
    [ClearLoop(ht, TRUE, 0, <<>>).ht EXCEPT !.numEntries = 0,
                                            !.numDeadEntries = 0]

\* The calls of freeFunc that dvmHashTableClear makes.
FreeCalls(ht, freeFunc) == ClearLoop(ht, freeFunc, 0, <<>>).calls

\* ForeachRemoveLoop with "numDeadEntries++" forgotten.
RECURSIVE ForeachRemoveLoop_NoDeadCount(_, _, _, _)
ForeachRemoveLoop_NoDeadCount(ht, func, i, calls) ==
    IF i < 0 THEN [ht |-> ht, status |-> "running", ret |-> 0, calls |-> calls]
    ELSE LET data == ht.pEntries[i].data
         IN  IF IsLive(data)
             THEN LET val == func[data]
                      seen == Append(calls, data)
                  IN  IF val = 1
                      THEN ForeachRemoveLoop_NoDeadCount(
                               [ht EXCEPT !.pEntries[i].data = HASH_TOMBSTONE,
                                          !.numEntries = @ - 1],
                               func, i - 1, seen)
                      ELSE IF val # 0
                      THEN [ht |-> ht, status |-> "running", ret |-> val, calls |-> seen]
                      ELSE ForeachRemoveLoop_NoDeadCount(ht, func, i - 1, seen)
             ELSE ForeachRemoveLoop_NoDeadCount(ht, func, i - 1, calls)

\* ForeachRemoveLoop taking every value other than 1 for 0: no early return.
RECURSIVE ForeachRemoveLoop_NoAbort(_, _, _, _)
ForeachRemoveLoop_NoAbort(ht, func, i, calls) ==
    IF i < 0 THEN [ht |-> ht, status |-> "running", ret |-> 0, calls |-> calls]
    ELSE LET data == ht.pEntries[i].data
         IN  IF IsLive(data)
             THEN LET val == func[data]
                      seen == Append(calls, data)
                  IN  IF val = 1
                      THEN ForeachRemoveLoop_NoAbort(
                               [ht EXCEPT !.pEntries[i].data = HASH_TOMBSTONE,
                                          !.numEntries = @ - 1,
                                          !.numDeadEntries = @ + 1],
                               func, i - 1, seen)
                      ELSE ForeachRemoveLoop_NoAbort(ht, func, i - 1, seen)
             ELSE ForeachRemoveLoop_NoAbort(ht, func, i - 1, calls)

\* dvmHashForeachRemove(pHashTable, func), "for (i = tableSize; --i >= 0;)".
\* func maps each item to the value the callback returns for it; calls is
\* the sequence of items func was called on.
RECURSIVE ForeachRemoveLoop(_, _, _, _)
ForeachRemoveLoop(ht, func, i, calls) ==
    IF i < 0 THEN [ht |-> ht, status |-> "running", ret |-> 0, calls |-> calls]
    ELSE LET data == ht.pEntries[i].data
         IN  IF IsLive(data)
             THEN LET val == func[data]
                      seen == Append(calls, data)
                  IN  IF val = 1
                      THEN ForeachRemoveLoop(
                               [ht EXCEPT !.pEntries[i].data = HASH_TOMBSTONE,
                                          !.numEntries = @ - 1,
                                          !.numDeadEntries = @ + 1],
                               func, i - 1, seen)
                      ELSE IF val # 0
                      THEN [ht |-> ht, status |-> "running", ret |-> val, calls |-> seen]
                      ELSE ForeachRemoveLoop(ht, func, i - 1, seen)
             ELSE ForeachRemoveLoop(ht, func, i - 1, calls)

dvmHashForeachRemove(ht, func) == ForeachRemoveLoop(ht, func, ht.tableSize - 1, <<>>)

\* ForeachLoop going on after func has returned a value other than 0, and
\* returning the last such value.
RECURSIVE ForeachLoop_NoEarlyExit(_, _, _, _, _)
ForeachLoop_NoEarlyExit(ht, func, i, calls, last) ==
    IF i < 0 THEN [ht |-> ht, status |-> "running", ret |-> last, calls |-> calls]
    ELSE LET data == ht.pEntries[i].data
         IN  IF IsLive(data)
             THEN ForeachLoop_NoEarlyExit(ht, func, i - 1, Append(calls, data),
                                          IF func[data] # 0 THEN func[data] ELSE last)
             ELSE ForeachLoop_NoEarlyExit(ht, func, i - 1, calls, last)

\* The loop of dvmHashForeach, "for (i = tableSize; --i >= 0;)".  last is
\* the value returned when the loop runs to its end.
RECURSIVE ForeachLoop(_, _, _, _, _)
ForeachLoop(ht, func, i, calls, last) ==
    IF i < 0 THEN [ht |-> ht, status |-> "running", ret |-> last, calls |-> calls]
    ELSE LET data == ht.pEntries[i].data
         IN  IF IsLive(data)
             THEN LET val == func[data]
                      seen == Append(calls, data)
                  IN  IF val # 0
                      THEN [ht |-> ht, status |-> "running", ret |-> val, calls |-> seen]
                      ELSE ForeachLoop(ht, func, i - 1, seen, last)
             ELSE ForeachLoop(ht, func, i - 1, calls, last)

\* dvmHashForeach(pHashTable, func, arg); func[data] is what (*func)(data, arg)
\* returns.
dvmHashForeach(ht, func) == ForeachLoop(ht, func, ht.tableSize - 1, <<>>, 0)

\* ------------------------------------------------------------------ actions
\* An action binds the result r of its call once and stores its parts.
\* The state keeps the hashValue of an entry only while its data is an item.
\* Remove, foreachRemove and clear leave the old hashValue behind in an entry
\* they turn into a tombstone or NULL, and no code reads it again: every
\* read of hashValue comes after data was found to be an item (lines
\* 146-147, 189-190, 357-358), and an insertion writes hashValue with data
\* (lines 155-156, 210-211).  Two tables that differ only in these stale
\* fields behave alike, so the actions store one of them: Canon of the table
\* the call leaves.
Threads == {1, 2}
ThreadStart == [pc |-> "start", idx |-> 0, ret |-> NULL, grew |-> FALSE]

Canon(ht) ==
    [ht EXCEPT !.pEntries =
        [i \in 0 .. ht.tableSize - 1 |->
            IF IsLive(@[i].data) THEN @[i] ELSE [@[i] EXCEPT !.hashValue = 0]]]

Init ==
    /\ sizeHint \in 1 .. MaxInitialSize
    /\ pHashTable = dvmHashTableCreate(sizeHint)
    /\ calcFunc \in HashFuncs
    /\ status = "running"
    /\ held = {}
    /\ scen = IF sizeHint = 4 /\ calcFunc = ScenarioHash THEN 0 ELSE -1
    /\ trip = [phase |-> "ins", n |-> 0, left |-> 0]
    /\ freed = <<>>
    /\ lock = 0
    /\ thr = [t \in Threads |-> ThreadStart]

\* itemHash as callers pass it to lookup and remove with an item: the
\* item's hash code, or any other one.
HashInputs(item) == Hashes \cup {calcFunc[KeyOf(item)]}

\* What pEnd->data can yield: pEnd is reached only in a single-entry table.
OobValues == IF pHashTable.tableSize = 1 THEN {NULL, HASH_TOMBSTONE} \cup Items ELSE {NULL}

LiveItems(ht) ==
    {ht.pEntries[i].data : i \in {j \in 0 .. ht.tableSize - 1 : IsLive(ht.pEntries[j].data)}}

TripOff == [phase |-> "off", n |-> 0, left |-> 0]

\* dvmHashTableLookup with doAdd = false
Find ==
    /\ status = "running"
    /\ \E item \in Items, oob \in OobValues : \E itemHash \in HashInputs(item) :
          \E r \in {dvmHashTableLookup(pHashTable, itemHash, item, FALSE, TRUE, oob)} :
              /\ pHashTable' = Canon(r.ht)
              /\ status' = r.status
    /\ freed' = <<>>
    /\ UNCHANGED <<calcFunc, sizeHint, lock, thr, held, scen, trip>>

\* dvmHashTableLookup with doAdd = true and the item's hash code
Add ==
    /\ status = "running"
    /\ \E item \in Items, allocOk \in BOOLEAN, oob \in OobValues :
          \E r \in {dvmHashTableLookup(pHashTable, calcFunc[KeyOf(item)], item,
                                      TRUE, allocOk, oob)} :
          LET isNew == r.status = "running" /\ r.ht # pHashTable
          IN  /\ r.ht.tableSize <= MaxTableSize
              /\ r.status = "aborted" => pHashTable.tableSize * 2 <= MaxTableSize
              /\ pHashTable' = Canon(r.ht)
              /\ status' = r.status
              /\ held' = IF isNew THEN held \cup {item} ELSE held
              /\ scen' = IF ~isNew THEN scen
                         ELSE IF scen >= 0 /\ scen < 4 /\ item = scen + 1
                         THEN scen + 1 ELSE -1
              /\ trip' = IF r.status # "running" THEN trip
                         ELSE IF trip.phase = "ins" /\ isNew
                         THEN [trip EXCEPT !.n = @ + 1, !.left = @ + 1]
                         ELSE TripOff
    /\ freed' = <<>>
    /\ UNCHANGED <<calcFunc, sizeHint, lock, thr>>

Remove ==
    /\ status = "running"
    /\ \E item \in Items : \E itemHash \in HashInputs(item) :
          \E r \in {dvmHashTableRemove(pHashTable, itemHash, item)} :
          LET gone == r.status = "running" /\ r.ret = 1
          IN  /\ pHashTable' = Canon(r.ht)
              /\ status' = r.status
              /\ held' = IF gone THEN held \ {item} ELSE held
              /\ scen' = IF gone THEN -1 ELSE scen
              /\ trip' = IF ~gone THEN trip
                         ELSE IF trip.phase \in {"ins", "rem"} /\ trip.left > 0
                         THEN [trip EXCEPT !.phase = "rem", !.left = @ - 1]
                         ELSE TripOff
    /\ freed' = <<>>
    /\ UNCHANGED <<calcFunc, sizeHint, lock, thr>>

\* The table was created with a freeFunc.
Clear ==
    /\ status = "running"
    /\ pHashTable' = Canon(dvmHashTableClear(pHashTable))
    /\ freed' = FreeCalls(pHashTable, TRUE)
    /\ held' = {}
    /\ scen' = -1
    /\ trip' = TripOff
    /\ UNCHANGED <<calcFunc, sizeHint, lock, thr, status>>

\* dvmHashTableFree: dvmHashTableClear, then the memory is given back and
\* no call is made on the table any more.
Free ==
    /\ status = "running"
    /\ pHashTable' = Canon(dvmHashTableClear(pHashTable))
    /\ freed' = FreeCalls(pHashTable, TRUE)
    /\ status' = "freed"
    /\ held' = {}
    /\ scen' = -1
    /\ trip' = TripOff
    /\ UNCHANGED <<calcFunc, sizeHint, lock, thr>>

ForeachRemove ==
    /\ status = "running"
    /\ \E func \in [LiveItems(pHashTable) -> {0, 1, 2}] :
          \E r \in {dvmHashForeachRemove(pHashTable, func)} :
          LET removed == {r.calls[k] : k \in {j \in 1 .. Len(r.calls) : func[r.calls[j]] = 1}}
          IN  /\ pHashTable' = Canon(r.ht)
              /\ status' = r.status
              /\ held' = held \ removed
              /\ scen' = IF removed = {} THEN scen ELSE -1
              /\ trip' = IF removed = {} THEN trip ELSE TripOff
    /\ freed' = <<>>
    /\ UNCHANGED <<calcFunc, sizeHint, lock, thr>>

Foreach ==
    /\ status = "running"
    /\ \E func \in [LiveItems(pHashTable) -> {0, 1, 2}] :
          \E r \in {dvmHashForeach(pHashTable, func)} :
              /\ pHashTable' = Canon(r.ht)
              /\ status' = r.status
    /\ freed' = <<>>
    /\ UNCHANGED <<calcFunc, sizeHint, lock, thr, held, scen, trip>>

Next == Find \/ Add \/ Remove \/ Clear \/ ForeachRemove \/ Free \/ Foreach

Spec == Init /\ [][Next]_vars

\* ------------------------------------------------------ two threads (SpecMT)
\* Two threads intern the same key: each takes the table's lock, calls
\* dvmHashTableLookup with doAdd for its own object with that key, and gives
\* the lock back.  The call is taken in the steps in which it reads and
\* writes the table: the probe, the write of the new entry, the resize.
\* Before the threads start, the table is filled by calls of lookup and
\* remove.  The observers held, scen and trip follow those calls only.
ItemOf(t) == IF t = 1 THEN 1 ELSE NumItems
HashOfThread(t) == calcFunc[KeyOf(ItemOf(t))]

\* dvmHashTableLock grants the lock when no thread holds it.
LockFree(l) == l = 0

AllAtStart == \A t \in Threads : thr[t].pc = "start"

MTSetup == AllAtStart /\ (Add \/ Remove)

\* dvmHashTableLock
T_Lock(t) ==
    /\ status = "running"
    /\ thr[t].pc = "start"
    /\ LockFree(lock)
    /\ lock' = t
    /\ thr' = [thr EXCEPT ![t].pc = "probe"]
    /\ UNCHANGED <<pHashTable, calcFunc, sizeHint, status, held, scen, trip, freed>>

\* the probe loop of dvmHashTableLookup and the test that follows it
T_Probe(t) ==
    /\ status = "running"
    /\ thr[t].pc = "probe"
    /\ \E oob \in OobValues :
          \E p \in {LookupProbe(pHashTable.pEntries, pHashTable.tableSize, HashOfThread(t),
                                ItemOf(t), HashOfThread(t) % pHashTable.tableSize, 0)} :
          LET d == DataAt(pHashTable.pEntries, pHashTable.tableSize, p.idx, oob)
          IN  /\ status' = IF p.halts THEN status ELSE "hung"
              /\ thr' = [thr EXCEPT ![t] =
                            IF d = NULL
                            THEN [@ EXCEPT !.pc = "insert", !.idx = p.idx]
                            ELSE [@ EXCEPT !.pc = "unlock", !.idx = p.idx, !.ret = d]]
    /\ UNCHANGED <<pHashTable, calcFunc, sizeHint, held, scen, trip, freed, lock>>

\* "pEntry->hashValue = itemHash; pEntry->data = item; numEntries++" and the
\* load test
T_Insert(t) ==
    /\ status = "running"
    /\ thr[t].pc = "insert"
    /\ LET added == [pHashTable EXCEPT
                        !.pEntries = IF thr[t].idx < pHashTable.tableSize
                                     THEN [@ EXCEPT ![thr[t].idx] =
                                              [hashValue |-> HashOfThread(t),
                                               data |-> ItemOf(t)]]
                                     ELSE @,
                        !.numEntries = @ + 1]
       IN  /\ pHashTable' = added
           /\ thr' = [thr EXCEPT ![t] =
                         IF TooFull(added.numEntries, added.numDeadEntries, added.tableSize)
                         THEN [@ EXCEPT !.pc = "resize"]
                         ELSE [@ EXCEPT !.pc = "unlock", !.ret = ItemOf(t)]]
    /\ UNCHANGED <<calcFunc, sizeHint, status, held, scen, trip, freed, lock>>

\* "if (!resizeHash(pHashTable, tableSize * 2)) dvmAbort()"
T_Resize(t) ==
    /\ status = "running"
    /\ thr[t].pc = "resize"
    /\ pHashTable.tableSize * 2 <= MaxTableSize
    /\ \E allocOk \in BOOLEAN :
          \E grown \in {resizeHash(pHashTable, pHashTable.tableSize * 2, allocOk)} :
              /\ pHashTable' = IF grown.ok THEN Canon(grown.ht) ELSE pHashTable
              /\ status' = IF grown.hung THEN "hung"
                            ELSE IF grown.ok THEN "running" ELSE "aborted"
              /\ thr' = IF grown.ok
                         THEN [thr EXCEPT ![t].pc = "unlock", ![t].ret = ItemOf(t),
                                          ![t].grew = TRUE]
                         ELSE thr
    /\ UNCHANGED <<calcFunc, sizeHint, held, scen, trip, freed, lock>>

\* dvmHashTableUnlock
T_Unlock(t) ==
    /\ status = "running"
    /\ thr[t].pc = "unlock"
    /\ lock' = 0
    /\ thr' = [thr EXCEPT ![t].pc = "done"]
    /\ UNCHANGED <<pHashTable, calcFunc, sizeHint, status, held, scen, trip, freed>>

NextMT ==
    \/ MTSetup
    \/ \E t \in Threads : T_Lock(t)
    \/ \E t \in Threads : T_Probe(t)
    \/ \E t \in Threads : T_Insert(t)
    \/ \E t \in Threads : T_Resize(t)
    \/ \E t \in Threads : T_Unlock(t)

SpecMT == Init /\ [][NextMT]_vars

\* ------------------------------------------- a table sized for n (SpecSized)
\* A table created with initialSize dvmHashSize(n), for an n up to the number
\* of keys there are to insert or the least n at which "size * LOAD_DENOM"
\* wraps around, and then only lookups with doAdd.
SizedArgs == (1 .. Cardinality(Keys)) \cup {WrapAt}

InitSized ==
    /\ sizeHint \in {dvmHashSize(n) : n \in SizedArgs}
    /\ pHashTable = dvmHashTableCreate(sizeHint)
    /\ calcFunc \in HashFuncs
    /\ status = "running"
    /\ held = {}
    /\ scen = -1
    /\ trip = [phase |-> "ins", n |-> 0, left |-> 0]
    /\ freed = <<>>
    /\ lock = 0
    /\ thr = [t \in Threads |-> ThreadStart]

NextSized == Add

SpecSized == InitSized /\ [][NextSized]_vars

\* ------------------------------------------------------- helpers of the claims
HT == pHashTable
Slots(ht) == 0 .. ht.tableSize - 1
Occupied(ht) == {i \in Slots(ht) : IsLive(ht.pEntries[i].data)}
Tombstones(ht) == {i \in Slots(ht) : ht.pEntries[i].data = HASH_TOMBSTONE}
Empties(ht) == {i \in Slots(ht) : ht.pEntries[i].data = NULL}

\* The hash code callers pass with an item they add.
HashOf(item) == calcFunc[KeyOf(item)]

\* lookup with doAdd = false
FindIn(ht, itemHash, item, oob) == dvmHashTableLookup(ht, itemHash, item, FALSE, TRUE, oob)

\* An entry that is not in the slot its hash starts the probe at.
Displaced(ht) == {i \in Occupied(ht) : ht.pEntries[i].hashValue % ht.tableSize # i}

Resized == HT.tableSize > dexRoundUpPower2(sizeHint)

\* ---------------------------------------------------------------------- C1
\* C1: every item that was added (by a lookup with doAdd that found no equal
\* item, through any number of resizes) and not taken out since is returned
\* by a lookup without doAdd given the item and the hash it was added with.
C1_AddedItemsAreFound ==
    status = "running" =>
        \A item \in held, oob \in OobValues :
            LET r == FindIn(HT, HashOf(item), item, oob)
            IN  r.status = "running" /\ r.ret = item

\* Only additions so far, at least four, a resize among them, and an entry
\* pushed off its home slot.
C1_Witness ==
    /\ status = "running"
    /\ trip.phase = "ins" /\ trip.n >= 4
    /\ Cardinality(held) >= 4
    /\ Resized
    /\ Displaced(HT) # {}

\* ---------------------------------------------------------------------- C2
\* C2: a lookup without doAdd of an item no equal of which is in the table,
\* with any hash, ends, returns NULL, advances fewer times than tableSize
\* (the count of countProbes) and leaves the table as it was.
NoEqualHeld(item) == \A x \in held : cmpFunc(x, item) # 0

C2_AbsentLookup ==
    status = "running" =>
        \A item \in Items :
            NoEqualHeld(item) =>
                \A itemHash \in HashInputs(item), oob \in OobValues :
                    LET p == LookupProbe(HT.pEntries, HT.tableSize, itemHash, item,
                                         itemHash % HT.tableSize, 0)
                        r == FindIn(HT, itemHash, item, oob)
                    IN  /\ p.halts
                        /\ p.count < HT.tableSize
                        /\ r.status = "running"
                        /\ r.ret = NULL
                        /\ r.ht = HT

\* A miss that has to walk over a tombstone and an item before it reaches NULL.
C2_Witness ==
    /\ status = "running"
    /\ \E item \in Items :
          /\ NoEqualHeld(item)
          /\ LET start == HashOf(item) % HT.tableSize
                 p == LookupProbe(HT.pEntries, HT.tableSize, HashOf(item), item, start, 0)
             IN  /\ p.count >= 2
                 /\ FindIn(HT, HashOf(item), item, NULL).ret = NULL
                 /\ \E i \in Tombstones(HT), j \in Occupied(HT) :
                       /\ (i - start) % HT.tableSize < p.count
                       /\ (j - start) % HT.tableSize < p.count

\* ---------------------------------------------------------------------- C3
\* C3: whenever a call has returned, (numEntries + numDeadEntries) * 8 <=
\* tableSize * 5, so numEntries + numDeadEntries < tableSize, some entry is
\* NULL and numEntries < tableSize; and an adding lookup whose calloc
\* succeeds returns with the bound restored by at most one doubling.
LoadOk(ht) == (ht.numEntries + ht.numDeadEntries) * LOAD_DENOM <= ht.tableSize * LOAD_NUMER

C3_LoadFactor ==
    status = "running" =>
        /\ LoadOk(HT)
        /\ HT.numEntries + HT.numDeadEntries < HT.tableSize
        /\ Empties(HT) # {}
        /\ HT.numEntries < HT.tableSize
        /\ \A item \in Items, oob \in OobValues :
              LET r == dvmHashTableLookup(HT, HashOf(item), item, TRUE, TRUE, oob)
              IN  /\ r.status = "running"
                  /\ r.ht.tableSize \in {HT.tableSize, 2 * HT.tableSize}
                  /\ LoadOk(r.ht)
                  /\ r.ht.numEntries < r.ht.tableSize

\* A table that has been doubled, holds tombstones, and will be doubled
\* again by the next addition.
C3_Witness ==
    /\ status = "running"
    /\ Resized
    /\ HT.numDeadEntries >= 1
    /\ HT.numEntries >= 2
    /\ \E item \in Items :
          dvmHashTableLookup(HT, HashOf(item), item, TRUE, TRUE, NULL).ht.tableSize
              = 2 * HT.tableSize

\* ---------------------------------------------------------------------- C4
\* C4: when an adding lookup resizes, tableSize doubles, numEntries is what
\* the insertion made it, numDeadEntries is 0, the new array holds no
\* tombstone, every item of the old array and the added one are returned by
\* a lookup with their stored hash, and the new array holds each of them once.
C4_Resize ==
    status = "running" =>
        \A item \in Items, oob \in OobValues :
            LET r == dvmHashTableLookup(HT, HashOf(item), item, TRUE, TRUE, oob)
            IN  (r.status = "running" /\ r.ht.tableSize # HT.tableSize) =>
                    /\ r.ht.tableSize = 2 * HT.tableSize
                    /\ r.ht.numEntries = HT.numEntries + 1
                    /\ r.ht.numDeadEntries = 0
                    /\ Tombstones(r.ht) = {}
                    /\ countTombStones(r.ht.pEntries, r.ht.tableSize) = 0
                    /\ \A i \in Occupied(HT) :
                          FindIn(r.ht, HT.pEntries[i].hashValue, HT.pEntries[i].data, oob).ret
                              = HT.pEntries[i].data
                    /\ FindIn(r.ht, HashOf(item), item, oob).ret = item
                    /\ Cardinality(Occupied(r.ht)) = Cardinality(Occupied(HT)) + 1
                    /\ \A i, j \in Occupied(r.ht) :
                          r.ht.pEntries[i].data = r.ht.pEntries[j].data => i = j

\* An addition that resizes a table of at least 4 entries holding tombstones
\* and a displaced item.
C4_Witness ==
    /\ status = "running"
    /\ HT.tableSize >= 4
    /\ HT.numDeadEntries >= 1
    /\ Displaced(HT) # {}
    /\ \E item \in Items :
          LET r == dvmHashTableLookup(HT, HashOf(item), item, TRUE, TRUE, NULL)
          IN  r.status = "running" /\ r.ht.tableSize = 2 * HT.tableSize

\* ---------------------------------------------------------------------- C5
\* C5: a lookup with doAdd for an item that matches a stored entry (same
\* hash, cmpFunc 0) returns the stored item and changes nothing, whether or
\* not an allocation would succeed; and no two entries of the table hold
\* items with the same hash that compare equal.
Matches(ht, itemHash, item) ==
    {i \in Occupied(ht) : /\ ht.pEntries[i].hashValue = itemHash
                          /\ cmpFunc(ht.pEntries[i].data, item) = 0}

C5_FindNotReplace ==
    status = "running" =>
        /\ \A item \in Items :
              \A itemHash \in HashInputs(item) :
                  Matches(HT, itemHash, item) # {} =>
                      \A allocOk \in BOOLEAN, oob \in OobValues :
                          LET r == dvmHashTableLookup(HT, itemHash, item, TRUE, allocOk, oob)
                          IN  /\ r.status = "running"
                              /\ r.ht = HT
                              /\ \E i \in Matches(HT, itemHash, item) :
                                    r.ret = HT.pEntries[i].data
        /\ \A i, j \in Occupied(HT) :
              (/\ HT.pEntries[i].hashValue = HT.pEntries[j].hashValue
               /\ cmpFunc(HT.pEntries[i].data, HT.pEntries[j].data) = 0) => i = j

\* The table holds an item behind a tombstone, and a lookup with doAdd for
\* another object with the same key returns the stored one.
C5_Witness ==
    /\ status = "running"
    /\ HT.numDeadEntries >= 1
    /\ \E item \in Items :
          LET start == HashOf(item) % HT.tableSize
              p == LookupProbe(HT.pEntries, HT.tableSize, HashOf(item), item, start, 0)
              r == dvmHashTableLookup(HT, HashOf(item), item, TRUE, TRUE, NULL)
          IN  /\ r.ret # item
              /\ r.ret \in held
              /\ p.count >= 1
              /\ \E i \in Tombstones(HT) : (i - start) % HT.tableSize < p.count

\* ---------------------------------------------------------------------- C6
\* C6: remove(hash, v) of an item v stored with that hash returns true, turns
\* the entry of v into a tombstone, takes 1 from numEntries and adds 1 to
\* numDeadEntries, leaves every other entry and tableSize as they were;
\* after it a lookup of v returns NULL and every other item is still found.
C6_Remove ==
    status = "running" =>
        \A i \in Occupied(HT) :
            LET item == HT.pEntries[i].data
                itemHash == HT.pEntries[i].hashValue
                r == dvmHashTableRemove(HT, itemHash, item)
            IN  /\ r.status = "running"
                /\ r.ret = 1
                /\ r.ht.pEntries = [HT.pEntries EXCEPT ![i].data = HASH_TOMBSTONE]
                /\ r.ht.numEntries = HT.numEntries - 1
                /\ r.ht.numDeadEntries = HT.numDeadEntries + 1
                /\ r.ht.tableSize = HT.tableSize
                /\ \A oob \in OobValues :
                      /\ FindIn(r.ht, itemHash, item, oob).ret = NULL
                      /\ \A j \in Occupied(HT) \ {i} :
                            FindIn(r.ht, HT.pEntries[j].hashValue, HT.pEntries[j].data, oob).ret
                                = HT.pEntries[j].data

\* Removes have been made, items are left, and a remaining item is found
\* only by probing across a tombstone.
C6_Witness ==
    /\ status = "running"
    /\ trip.phase = "rem" /\ trip.left >= 1
    /\ \E j \in Displaced(HT), t \in Tombstones(HT) :
          (t - HT.pEntries[j].hashValue) % HT.tableSize
              < (j - HT.pEntries[j].hashValue) % HT.tableSize

\* ---------------------------------------------------------------------- C7
\* C7: remove with any hash and an item that no entry of the table holds
\* returns false and leaves the counts and every entry as they were.
C7_RemoveAbsent ==
    status = "running" =>
        \A item \in Items \ LiveItems(HT) :
            \A itemHash \in HashInputs(item) :
                LET r == dvmHashTableRemove(HT, itemHash, item)
                IN  /\ r.status = "running"
                    /\ r.ret = 0
                    /\ r.ht = HT

\* The table holds an item; another object with the same key that is not in
\* the table is removed with their common hash, and the probe passes a
\* tombstone.
C7_Witness ==
    /\ status = "running"
    /\ \E item \in Items \ LiveItems(HT) :
          /\ \E x \in held : cmpFunc(x, item) = 0
          /\ dvmHashTableRemove(HT, HashOf(item), item).ret = 0
          /\ HT.pEntries[HashOf(item) % HT.tableSize].data = HASH_TOMBSTONE

\* ---------------------------------------------------------------------- C8
\* C8: numEntries is the number of entries holding an item and
\* numDeadEntries the number of tombstones, in every state; so the
\* assertions of resizeHash hold: the tombstones counted before the copy are
\* numDeadEntries, and none is counted after it.
C8_Counts ==
    /\ HT.numEntries = Cardinality(Occupied(HT))
    /\ HT.numDeadEntries = Cardinality(Tombstones(HT))
    /\ countTombStones(HT.pEntries, HT.tableSize) = HT.numDeadEntries
    /\ status = "running" =>
          \A item \in Items, oob \in OobValues :
              LET r == dvmHashTableLookup(HT, HashOf(item), item, TRUE, TRUE, oob)
              IN  r.ht.tableSize # HT.tableSize =>
                      countTombStones(r.ht.pEntries, r.ht.tableSize) = 0

\* A doubled table with items and tombstones in it.
C8_Witness ==
    /\ status = "running"
    /\ Resized
    /\ HT.numEntries >= 2
    /\ HT.numDeadEntries >= 2

\* ---------------------------------------------------------------------- C9
\* The scenario: a table created with initialSize 4; items 1, 2, 3, 4 (A, B,
\* C, D) with hashes 0, 1, 2, 4 are added in that order.  scen counts them.
ItemAt(ht, i, item, itemHash) ==
    i < ht.tableSize /\ ht.pEntries[i] = [hashValue |-> itemHash, data |-> item]
AllFound(ht, items) ==
    \A item \in items : FindIn(ht, ScenarioHash[KeyOf(item)], item, NULL).ret = item

\* C9 as claimed: A, B, C are in slots 0, 1, 2 of the table of 4; D then
\* goes to slot 3 of it and only that addition resizes the table to 8, in
\* which all four are found.
C9_AsClaimed ==
    status = "running" =>
        /\ scen = 3 => /\ HT.tableSize = 4
                       /\ ItemAt(HT, 0, 1, 0) /\ ItemAt(HT, 1, 2, 1) /\ ItemAt(HT, 2, 3, 2)
        /\ scen = 4 => /\ HT.tableSize = 8
                       /\ AllFound(HT, {1, 2, 3, 4})

\* C9, amended: A and B are in slots 0 and 1 of the table of 4; adding C
\* (3 * 8 > 4 * 5) resizes the table to 8 with A, B, C in slots 0, 1, 2; D
\* then goes to slot 4 of the table of 8 without meeting A and without
\* another resize; lookups of A, B, C and D all succeed.
C9_Scenario ==
    status = "running" =>
        /\ scen = 0 => HT.tableSize = 4 /\ HT.numEntries = 0
        /\ scen = 1 => HT.tableSize = 4 /\ ItemAt(HT, 0, 1, 0) /\ HT.numEntries = 1
        /\ scen = 2 => /\ HT.tableSize = 4 /\ HT.numEntries = 2
                       /\ ItemAt(HT, 0, 1, 0) /\ ItemAt(HT, 1, 2, 1)
        /\ scen = 3 => /\ HT.tableSize = 8 /\ HT.numEntries = 3
                       /\ ItemAt(HT, 0, 1, 0) /\ ItemAt(HT, 1, 2, 1) /\ ItemAt(HT, 2, 3, 2)
                       /\ AllFound(HT, {1, 2, 3})
        /\ scen = 4 => /\ HT.tableSize = 8 /\ HT.numEntries = 4
                       /\ ItemAt(HT, 0, 1, 0) /\ ItemAt(HT, 1, 2, 1) /\ ItemAt(HT, 2, 3, 2)
                       /\ ItemAt(HT, 4, 4, 4)
                       /\ HT.pEntries[3].data = NULL
                       /\ AllFound(HT, {1, 2, 3, 4})

\* All four items of the scenario have been added.
C9_Witness == scen = 4 /\ status = "running" /\ held = {1, 2, 3, 4}

\* --------------------------------------------------------------------- C10
\* N new items have been added and then all N removed, and nothing else has
\* changed the table.
TripDone == trip.phase = "rem" /\ trip.left = 0

\* C10 as claimed: numEntries is then 0 and a clear changes neither
\* numEntries nor numDeadEntries.
C10_AsClaimed ==
    (status = "running" /\ TripDone) =>
        /\ HT.numEntries = 0
        /\ dvmHashTableClear(HT).numEntries = HT.numEntries
        /\ dvmHashTableClear(HT).numDeadEntries = HT.numDeadEntries

\* C10, amended: numEntries is then 0 and numDeadEntries is N; a clear
\* leaves numEntries at 0 and resets numDeadEntries from N to 0.
C10_RoundTrip ==
    (status = "running" /\ TripDone) =>
        /\ HT.numEntries = 0
        /\ held = {}
        /\ HT.numDeadEntries = trip.n
        /\ trip.n >= 1
        /\ dvmHashTableClear(HT).numEntries = 0
        /\ dvmHashTableClear(HT).numDeadEntries = 0
        /\ dvmHashTableClear(HT).tableSize = HT.tableSize

\* Four items added, with a resize on the way, and all four removed.
C10_Witness ==
    /\ status = "running"
    /\ TripDone
    /\ trip.n >= 4
    /\ Resized

\* --------------------------------------------------------------------- C11
\* The values the callbacks of foreachRemove and foreach return.
FuncsOn(ht) == [LiveItems(ht) -> {0, 1, 2}]
Max(S) == CHOOSE x \in S : \A y \in S : y <= x

\* The entries on which func returns a value that ends the scan, and the
\* entries the scan (from the last entry downwards) comes to.
StopsAt(ht, func, ends) == {i \in Occupied(ht) : func[ht.pEntries[i].data] \in ends}
ReachedBy(ht, func, ends) ==
    {i \in Occupied(ht) : \A s \in StopsAt(ht, func, ends) : i >= s}

\* C11: foreachRemove calls func once on the item of every entry it comes to
\* that holds an item, and on nothing else; an entry func answers 1 for
\* becomes a tombstone, with 1 taken from numEntries and added to
\* numDeadEntries, and a lookup of its item returns NULL; every other item
\* is still found; a value other than 0 and 1 ends the scan at once and is
\* returned, with the removals made so far kept and the counts matching the
\* entries; otherwise 0 is returned.
C11_ForeachRemove ==
    status = "running" =>
        \A func \in FuncsOn(HT) :
            \A r \in {dvmHashForeachRemove(HT, func)}, reached \in {ReachedBy(HT, func, {2})} :
            LET stops == StopsAt(HT, func, {2})
                removed == {i \in reached : func[HT.pEntries[i].data] = 1}
            IN  /\ r.status = "running"
                /\ Len(r.calls) = Cardinality(reached)
                /\ \A i \in reached :
                      Cardinality({k \in 1 .. Len(r.calls) : r.calls[k] = HT.pEntries[i].data}) = 1
                /\ \A k, l \in 1 .. Len(r.calls) :
                      k < l => \E i, j \in reached : /\ i > j
                                                      /\ r.calls[k] = HT.pEntries[i].data
                                                      /\ r.calls[l] = HT.pEntries[j].data
                /\ r.ret = IF stops = {} THEN 0 ELSE func[HT.pEntries[Max(stops)].data]
                /\ r.ht.pEntries =
                      [i \in Slots(HT) |-> IF i \in removed
                                           THEN [HT.pEntries[i] EXCEPT !.data = HASH_TOMBSTONE]
                                           ELSE HT.pEntries[i]]
                /\ r.ht.tableSize = HT.tableSize
                /\ r.ht.numEntries = HT.numEntries - Cardinality(removed)
                /\ r.ht.numDeadEntries = HT.numDeadEntries + Cardinality(removed)
                /\ r.ht.numEntries = Cardinality(Occupied(r.ht))
                /\ r.ht.numDeadEntries = Cardinality(Tombstones(r.ht))
                /\ \A i \in Occupied(HT) :
                      FindIn(r.ht, HT.pEntries[i].hashValue, HT.pEntries[i].data, NULL).ret
                          = IF i \in removed THEN NULL ELSE HT.pEntries[i].data

\* A table with a tombstone and four items, scanned with a func that keeps
\* the first item, removes the second and ends the scan with 2 at the third,
\* before it comes to the fourth.
C11_Witness ==
    /\ status = "running"
    /\ HT.numDeadEntries >= 1
    /\ HT.numEntries >= 4
    /\ \E func \in FuncsOn(HT) :
          LET r == dvmHashForeachRemove(HT, func)
          IN  /\ r.ret = 2
              /\ Len(r.calls) = 3
              /\ func[r.calls[1]] = 0
              /\ func[r.calls[2]] = 1
              /\ r.ht.numEntries = HT.numEntries - 1

\* --------------------------------------------------------------------- C12
\* What clear does to a table, with and without a freeFunc.
ClearFrees(ht) ==
    /\ \A freeFunc \in BOOLEAN :
          LET calls == FreeCalls(ht, freeFunc)
          IN  IF freeFunc
              THEN /\ Len(calls) = Cardinality(Occupied(ht))
                   /\ \A i \in Occupied(ht) :
                         Cardinality({k \in 1 .. Len(calls) : calls[k] = ht.pEntries[i].data}) = 1
                   /\ \A k \in 1 .. Len(calls) : IsLive(calls[k]) /\ calls[k] \in held
              ELSE calls = <<>>
    /\ LET t == dvmHashTableClear(ht)
       IN  /\ Empties(t) = Slots(t)
           /\ t.numEntries = 0
           /\ t.numDeadEntries = 0
           /\ t.tableSize = ht.tableSize

\* A step in which freeFunc is called: it is a clear (or the clear of free)
\* and the calls are those of dvmHashTableClear on the table before it.
\* Any other call leaves an entry that is not NULL or leaves the table as
\* it was.
ReleaseStep ==
    freed' = IF pHashTable' = Canon(dvmHashTableClear(pHashTable))
             THEN FreeCalls(pHashTable, TRUE)
             ELSE <<>>

\* C12: freeFunc is called by clear (and by free through clear) only, once
\* on each item an entry holds at that moment, never on a tombstone and
\* never on an item that was removed; lookup, resize, remove and
\* foreachRemove make no call of it.  After clear every entry is NULL,
\* numEntries and numDeadEntries are 0 and tableSize is what it was.
C12_ReleaseFn ==
    /\ [](status = "running" => ClearFrees(pHashTable))
    /\ [][ReleaseStep]_vars

\* A clear has just called freeFunc on four items.
C12_Witness ==
    /\ Len(freed) >= 4
    /\ status = "running"
    /\ HT.numEntries = 0
    /\ Empties(HT) = Slots(HT)

\* --------------------------------------------------------------------- C13
IsPowerOfTwo(n) == n > 0 /\ \E k \in 0 .. n : 2 ^ k = n

\* A step that inserts an item: a lookup with doAdd that found no match.
InsertStep ==
    /\ pHashTable'.numEntries = pHashTable.numEntries + 1
    /\ \E item \in Items \ held :
          /\ held' = held \cup {item}
          /\ item \in LiveItems(pHashTable')

\* C13: tableSize is a power of two and greater than 0 in every state; no
\* step makes it smaller, and a step that changes it doubles it and is the
\* step of a lookup that inserts an item: remove, clear, free, foreach,
\* foreachRemove and a lookup that inserts nothing leave it as it is.
C13_Capacity ==
    /\ [](IsPowerOfTwo(pHashTable.tableSize) /\ pHashTable.tableSize > 0)
    /\ [][\/ pHashTable'.tableSize = pHashTable.tableSize
          \/ /\ pHashTable'.tableSize = 2 * pHashTable.tableSize
             /\ InsertStep]_vars

\* A table created with 2 entries or fewer has grown to 8 and has then been
\* emptied by removes: it still has 8 entries.
C13_Witness ==
    /\ sizeHint <= 2
    /\ HT.tableSize = 8
    /\ HT.numEntries = 0
    /\ HT.numDeadEntries >= 2
    /\ status = "running"

\* --------------------------------------------------------------------- C14
\* C14: foreach calls func on the items of the entries that hold one, from
\* the last entry downwards, each once, and never on a NULL entry or a
\* tombstone; the first value other than 0 that func returns ends the scan,
\* no further call is made and that value is returned; otherwise every item
\* has been visited and 0 is returned, also when the table holds no item.
\* The table is left as it was.
C14_Foreach ==
    status = "running" =>
        \A func \in FuncsOn(HT) :
            \A r \in {dvmHashForeach(HT, func)}, reached \in {ReachedBy(HT, func, {1, 2})} :
            LET stops == StopsAt(HT, func, {1, 2})
            IN  /\ r.status = "running"
                /\ r.ht = HT
                /\ Len(r.calls) = Cardinality(reached)
                /\ \A k \in 1 .. Len(r.calls) : IsLive(r.calls[k])
                /\ \A i \in reached :
                      Cardinality({k \in 1 .. Len(r.calls) : r.calls[k] = HT.pEntries[i].data}) = 1
                /\ \A k, l \in 1 .. Len(r.calls) :
                      k < l => \E i, j \in reached : /\ i > j
                                                      /\ r.calls[k] = HT.pEntries[i].data
                                                      /\ r.calls[l] = HT.pEntries[j].data
                /\ \A k \in 1 .. Len(r.calls) - 1 : func[r.calls[k]] = 0
                /\ IF stops = {}
                   THEN r.ret = 0 /\ reached = Occupied(HT)
                   ELSE /\ r.ret = func[HT.pEntries[Max(stops)].data]
                        /\ r.ret # 0
                        /\ r.calls[Len(r.calls)] = HT.pEntries[Max(stops)].data

\* A table with tombstones and four items, an entry that is NULL between
\* two of them, a func that ends the scan at the second item it is given
\* and a func that lets it run through all four.
C14_Witness ==
    /\ status = "running"
    /\ HT.numDeadEntries >= 1
    /\ HT.numEntries >= 4
    /\ \E i, j \in Occupied(HT), e \in Empties(HT) : i < e /\ e < j
    /\ \E func \in FuncsOn(HT) :
          LET r == dvmHashForeach(HT, func)
          IN  r.ret = 2 /\ Len(r.calls) = 2
    /\ \E func \in FuncsOn(HT) :
          LET r == dvmHashForeach(HT, func)
          IN  r.ret = 0 /\ Len(r.calls) = HT.numEntries

\* --------------------------------------------------------------------- C15
\* The entries on the way of the probe from the home entry of the hash of
\* entry s up to s.
ProbePath(ht, s) ==
    LET home == ht.pEntries[s].hashValue % ht.tableSize
    IN  {(home + k) % ht.tableSize : k \in 0 .. ((s - home) % ht.tableSize)}

ChainOk(ht) == \A s \in Occupied(ht) : \A i \in ProbePath(ht, s) : ht.pEntries[i].data # NULL

CountsOk(ht) ==
    /\ ht.numEntries = Cardinality(Occupied(ht))
    /\ ht.numDeadEntries = Cardinality(Tombstones(ht))

\* A thread that is inside its call of dvmHashTableLookup.
InCall(t) == thr[t].pc \in {"probe", "insert", "resize", "unlock"}
KeyEntries(ht, key) == {i \in Occupied(ht) : KeyOf(ht.pEntries[i].data) = key}

\* C15: with each thread holding the lock from before its probe until after
\* its insertion and resize, a thread is inside the call only while it holds
\* the lock, so no thread reads the table while another is between the
\* write of its entry and the end of its resize; whenever the lock is free
\* the counts match the entries, the load bound holds and every item is
\* reached by its probe; and when both threads have returned, the table
\* holds one entry for their key and both calls returned the item stored in it.
C15_Locked ==
    /\ \A t \in Threads : InCall(t) => lock = t
    /\ \A t, u \in Threads :
          (t # u /\ thr[t].pc \in {"insert", "resize"}) => thr[u].pc \in {"start", "done"}
    /\ (status = "running" /\ lock = 0) =>
          /\ CountsOk(HT)
          /\ LoadOk(HT)
          /\ ChainOk(HT)
          /\ \A i \in Occupied(HT) :
                FindIn(HT, HT.pEntries[i].hashValue, HT.pEntries[i].data, NULL).ret
                    = HT.pEntries[i].data
    /\ (status = "running" /\ \A t \in Threads : thr[t].pc = "done") =>
          \E i \in Occupied(HT) :
              /\ KeyEntries(HT, KeyOf(ItemOf(1))) = {i}
              /\ \A t \in Threads : thr[t].ret = HT.pEntries[i].data

\* Both threads have returned the object of thread 2, which inserted it
\* behind another item and resized the table to 8 entries in its call; thread 1
\* found it.
C15_Witness ==
    /\ status = "running"
    /\ \A t \in Threads : thr[t].pc = "done" /\ thr[t].ret = ItemOf(2)
    /\ thr[2].grew /\ ~thr[1].grew
    /\ HT.tableSize = 8
    /\ HT.numEntries >= 3
    /\ KeyEntries(HT, KeyOf(ItemOf(1))) \cap Displaced(HT) # {}

\* --------------------------------------------------------------------- C16
\* The probes of lookup and remove for an item and a hash in table ht.
ProbeOf(ht, itemHash, item) ==
    LookupProbe(ht.pEntries, ht.tableSize, itemHash, item, itemHash % ht.tableSize, 0)
RemoveProbeOf(ht, itemHash, item) ==
    RemoveProbe(ht.pEntries, ht.tableSize, item, itemHash % ht.tableSize, 0)

C20_BreakNeverTaken ==
    status = "running" =>
        /\ HT.tableSize = 1 =>
              /\ HT.pEntries[0].data = NULL
              /\ HT.numEntries = 0
              /\ HT.numDeadEntries = 0
              /\ \A item \in Items :
                    dvmHashTableLookup(HT, HashOf(item), item, TRUE, TRUE, NULL).ht.tableSize = 2
        /\ \A item \in Items :
              /\ \A itemHash \in HashInputs(item) :
                    /\ ProbeOf(HT, itemHash, item).idx < HT.tableSize
                    /\ RemoveProbeOf(HT, itemHash, item).idx < HT.tableSize
              /\ countProbes(HT, HashOf(item), item, HASH_TOMBSTONE)
                    = countProbes(HT, HashOf(item), item, NULL)
              /\ \A doAdd \in BOOLEAN :
                    dvmHashTableLookup(HT, HashOf(item), item, doAdd, TRUE, HASH_TOMBSTONE)
                        = dvmHashTableLookup(HT, HashOf(item), item, doAdd, TRUE, NULL)

\* The first insertion into a table created with one entry has been made:
\* the table has 2 entries and holds the item.
C20_Witness ==
    /\ status = "running"
    /\ sizeHint = 1
    /\ trip.phase = "ins" /\ trip.n = 1
    /\ HT.tableSize = 2
    /\ HT.numEntries = 1

\* --------------------------------------------------------------------- C17
\* n insertions or fewer, and nothing else, have been made on a table
\* created with initialSize dvmHashSize(n).
SizedFor(n) == sizeHint = dvmHashSize(n) /\ trip.phase = "ins" /\ trip.n <= n

NotResized(n) ==
    /\ HT.numEntries = trip.n
    /\ HT.numDeadEntries = 0
    /\ HT.tableSize = dexRoundUpPower2(dvmHashSize(n))
    /\ ~Resized

\* C17 as claimed: for every n >= 1, a table created with initialSize
\* dvmHashSize(n) is not resized by the first n insertions of items with
\* distinct keys, no removal being made.
C17_AsClaimed ==
    status = "running" =>
        \A n \in SizedArgs : SizedFor(n) => NotResized(n)

\* C17 where the product does not wrap around: for n from 1 to MaxSizeArg,
\* n entries do not make a table of dexRoundUpPower2(dvmHashSize(n)) entries
\* too full, and for n up to the number of keys the first n insertions do not
\* resize the table created with initialSize dvmHashSize(n).
C17_WithinRange ==
    /\ \A n \in 1 .. MaxSizeArg :
          /\ dvmHashSize(n) = (n * 8) \div 5 + 1
          /\ ~TooFull(n, 0, dexRoundUpPower2(dvmHashSize(n)))
    /\ status = "running" =>
          \A n \in 1 .. Cardinality(Keys) : SizedFor(n) => NotResized(n)

\* dvmHashSize(2^29) is 1: the table created with it has one entry, and the
\* first insertion has resized it.
C17_Witness ==
    /\ status = "running"
    /\ sizeHint = dvmHashSize(WrapAt)
    /\ sizeHint = 1
    /\ trip.phase = "ins" /\ trip.n = 1
    /\ HT.numEntries = 1
    /\ HT.tableSize = 2
    /\ Resized

\* --------------------------------------------------------------------- C18
\* C18: in every state, every entry on the way of the probe from the home
\* entry of a stored item's hash up to the entry that holds the item, going
\* round the end of the array, holds an item or a tombstone.  Insertions,
\* resizes, removes and foreachRemove keep it so (every state they lead to
\* is among those checked), and the removal of any one item leaves every
\* other item on an unbroken path.
C18_ProbeChain ==
    /\ ChainOk(HT)
    /\ status = "running" =>
          \A i \in Occupied(HT) :
              LET r == dvmHashTableRemove(HT, HT.pEntries[i].hashValue, HT.pEntries[i].data)
              IN  /\ ChainOk(r.ht)
                  /\ Occupied(r.ht) = Occupied(HT) \ {i}
                  /\ \A j \in Occupied(r.ht) :
                        /\ ProbePath(r.ht, j) = ProbePath(HT, j)
                        /\ ProbeOf(r.ht, HT.pEntries[j].hashValue, HT.pEntries[j].data).idx = j

\* A resized table in which the path to an item goes round the end of the
\* array and over a tombstone.
C18_Witness ==
    /\ status = "running"
    /\ Resized
    /\ \E s \in Displaced(HT) :
          /\ HT.pEntries[s].hashValue % HT.tableSize > s
          /\ \E t \in Tombstones(HT) : t \in ProbePath(HT, s)

\* --------------------------------------------------------------------- C19
\* What an insertion does to the table before any resize: the table a
\* lookup with doAdd leaves when the calloc of resizeHash fails.
Inserted(ht, item, oob) == dvmHashTableLookup(ht, HashOf(item), item, TRUE, FALSE, oob).ht

InsertsIntoEmpty ==
    \A item \in Items, oob \in OobValues :
        LET slot == ProbeOf(HT, HashOf(item), item).idx
            new == Inserted(HT, item, oob)
            r == dvmHashTableLookup(HT, HashOf(item), item, TRUE, TRUE, oob)
        IN  new # HT =>
                /\ HT.pEntries[slot].data = NULL
                /\ new.pEntries = [HT.pEntries EXCEPT
                                      ![slot] = [hashValue |-> HashOf(item), data |-> item]]
                /\ Tombstones(new) = Tombstones(HT)
                /\ new.numDeadEntries = HT.numDeadEntries
                /\ new.numEntries = HT.numEntries + 1
                /\ r.ht.tableSize = 2 * HT.tableSize
                      <=> (HT.numEntries + 1 + HT.numDeadEntries) * LOAD_DENOM
                              > HT.tableSize * LOAD_NUMER

\* A step of a resize or of a clear.
ResizeOrClearStep ==
    \/ pHashTable'.tableSize = 2 * pHashTable.tableSize
    \/ /\ pHashTable'.numEntries = 0
       /\ pHashTable'.numDeadEntries = 0
       /\ Empties(pHashTable') = Slots(pHashTable')

\* C19: an insertion writes the new item into an entry that was NULL and
\* leaves every tombstone where it was; numDeadEntries goes down only in a
\* step that resizes or clears, and so does numEntries + numDeadEntries;
\* the table is resized as soon as numEntries + numDeadEntries passes the
\* load bound, however few items it holds.
C19_NoTombstoneReuse ==
    /\ [](status = "running" => InsertsIntoEmpty)
    /\ [][(\/ pHashTable'.numDeadEntries < pHashTable.numDeadEntries
           \/ pHashTable'.numEntries + pHashTable'.numDeadEntries
                 < pHashTable.numEntries + pHashTable.numDeadEntries)
          => ResizeOrClearStep]_vars

\* A table created with two entries or fewer that has been resized, in which
\* every item has been removed again and two tombstones are left: the
\* insertion of one item goes past a tombstone and doubles the table once more.
C19_Witness ==
    /\ status = "running"
    /\ sizeHint <= 2
    /\ HT.tableSize = 4
    /\ HT.numEntries = 0
    /\ HT.numDeadEntries = 2
    /\ held = {}
    /\ \E item \in Items :
          /\ dvmHashTableLookup(HT, HashOf(item), item, TRUE, TRUE, NULL).ht.tableSize = 8
          /\ ProbeOf(HT, HashOf(item), item).count >= 1
          /\ HT.pEntries[HashOf(item) % HT.tableSize].data = HASH_TOMBSTONE
====
